---- MODULE Spec2Model ----
(***************************************************************************)
(* blueblue: a BLE scanner with an HTTP control surface.  The repository   *)
(* holds two programs with the same scan controller:                       *)
(*   "devices"  src/main.go          registry = map[string]Device + RWMutex *)
(*   "beacons"  src/unnamed/part_000 registry = []Beacon, no lock           *)
(* The model runs one of them (prog) and interleaves the goroutines of the *)
(* process at the granularity of their shared-memory accesses: the HTTP    *)
(* handlers, the scan goroutines, the advertisement callbacks and the      *)
(* registry queries.                                                       *)
(***************************************************************************)
EXTENDS Integers, Sequences, FiniteSets, TLC

(* ------------------------------ bounds -------------------------------- *)
\* scan goroutines that can exist at once
MaxLoops == 2
\* advertisements the radio delivers in one run
MaxAdverts == 2
\* clock ticks in one run
MaxTicks == 2
\* longest manufacturer data the decoder is given
MaxMdLen == 28
\* bytes of the packet the manufacturer data is a slice of
MaxPacket == 31

(* --------------------------- program constants ------------------------ *)
\* the staleness window of showDevices, and the default of beaconsJSON
DefaultWindow == 60
\* the two bytes of the beacon service UUID tested by advHandler
SigByte0 == 3
SigByte1 == 24

Loops == 1..MaxLoops
\* every advertisement is handled by a goroutine of its own
Callbacks == 1..MaxAdverts
Addrs == {"X", "Y"}
\* the clock advances in steps of 45 seconds
Times == {45 * t : t \in 0..MaxTicks}
RSSIs == {-70, -40}

VARIABLES
  prog,      \* which program runs: "devices" or "beacons"
  exit,      \* "running", or why the process ended
  stop,      \* var stop bool
  resp,      \* the last HTTP response of /start or /stop
  loopPc,    \* position of each scan goroutine
  loopErr,   \* the error ble.Scan last returned to each scan goroutine
  stopReq,   \* observer: a /stop was accepted while this loop was running
  stopSince, \* observer: a /stop was accepted since this loop was launched
  now,       \* time.Now(), in seconds
  nAdv,      \* advertisements delivered so far
  mutex,     \* var mutex sync.RWMutex: 0 or the callback holding Lock
  devices,   \* var devices map[string]Device, as its set of entries
  beacons,   \* var beacons []Beacon
  cbPc,      \* position of each advertisement callback
  cbAdv,     \* the advertisement each callback handles
  cbIdx,     \* advHandler's index into svcdata
  cbLocal,   \* advHandler's operands of append: the slice read, the beacon
  upserted,  \* observer: per address, the record its last upsert wrote
  qPc,       \* position of the registry query
  qLast,     \* the query's "last" parameter, as sent
  qWin,      \* the window the query filters with
  qErr,      \* the query wrote the error page
  qStart,    \* time of the query's call
  qTodo,     \* showDevices: keys the map iteration must still produce
  qSeen,     \* showDevices: entries the map iteration has produced
  qSnap,     \* filterByDate's argument: the slice as read at the call
  qIdx,      \* filterByDate's position in it
  qData      \* the query's result so far

ctlVars == <<stop, resp, loopPc, loopErr, stopReq, stopSince>>
cbVars == <<mutex, devices, beacons, cbPc, cbAdv, cbIdx, cbLocal, upserted, nAdv>>
qVars == <<qPc, qLast, qWin, qErr, qStart, qTodo, qSeen, qSnap, qIdx, qData>>
vars == <<prog, exit, now, ctlVars, cbVars, qVars>>

Running == exit = "running"

\* no upsert yet
NoRecord == [Address |-> "", Detected |-> -1, RSSI |-> 0]

Init ==
  /\ prog \in {"devices", "beacons"}
  /\ exit = "running"
  /\ stop = TRUE
  /\ resp = [h |-> "none", code |-> 0, seq |-> 0]
  /\ loopPc = [l \in Loops |-> "idle"]
  /\ loopErr = [l \in Loops |-> "none"]
  /\ stopReq = [l \in Loops |-> FALSE]
  /\ stopSince = [l \in Loops |-> FALSE]
  /\ now = 0
  /\ nAdv = 0
  /\ mutex = 0
  /\ devices = {}
  /\ beacons = <<>>
  /\ cbPc = [c \in Callbacks |-> "idle"]
  /\ cbAdv = [c \in Callbacks |-> 0]
  /\ cbIdx = [c \in Callbacks |-> 0]
  /\ cbLocal = [c \in Callbacks |-> 0]
  /\ upserted = [a \in Addrs |-> NoRecord]
  /\ qPc = "idle"
  /\ qLast = <<>>
  /\ qWin = 0
  /\ qErr = FALSE
  /\ qStart = 0
  /\ qTodo = {}
  /\ qSeen = {}
  /\ qSnap = <<>>
  /\ qIdx = 0
  /\ qData = <<>>


\* The process ends (a panic, log.Fatal, a runtime fault): its memory is gone.
Ended(cause) ==
  /\ exit' = cause
  /\ prog' = prog
  /\ stop' = TRUE
  /\ resp' = [h |-> "none", code |-> 0, seq |-> 0]
  /\ loopPc' = [l \in Loops |-> "idle"]
  /\ loopErr' = [l \in Loops |-> "none"]
  /\ stopReq' = [l \in Loops |-> FALSE]
  /\ stopSince' = [l \in Loops |-> FALSE]
  /\ now' = 0
  /\ nAdv' = 0
  /\ mutex' = 0
  /\ devices' = {}
  /\ beacons' = <<>>
  /\ cbPc' = [c \in Callbacks |-> "idle"]
  /\ cbAdv' = [c \in Callbacks |-> 0]
  /\ cbIdx' = [c \in Callbacks |-> 0]
  /\ cbLocal' = [c \in Callbacks |-> 0]
  /\ upserted' = [a \in Addrs |-> NoRecord]
  /\ qPc' = "idle"
  /\ qLast' = <<>>
  /\ qWin' = 0
  /\ qErr' = FALSE
  /\ qStart' = 0
  /\ qTodo' = {}
  /\ qSeen' = {}
  /\ qSnap' = <<>>
  /\ qIdx' = 0
  /\ qData' = <<>>

(* --------------------------- scan controller -------------------------- *)
\* Positions of a scan goroutine:
\*   "idle"      no such goroutine
\*   "launched"  go scan() issued, stop = false not yet executed
\*   "cond"      at the loop condition  for !stop
\*   "scan"      inside ble.Scan
\*   "exit"      left the loop, final  stop = true  not yet executed
LoopPcs == {"idle", "launched", "cond", "scan", "exit"}
ScanErrs == {"timeout", "canceled", "error"}

LiveLoops == {l \in Loops : loopPc[l] # "idle"}
FreeLoop == CHOOSE l \in Loops : loopPc[l] = "idle" /\ \A k \in Loops : loopPc[k] = "idle" => l <= k

Respond(h, code) == [h |-> h, code |-> code, seq |-> 1 - resp.seq]

\* startScan without its test of stop
startScanUnguarded ==
  /\ Running
  /\ \E l \in Loops : loopPc[l] = "idle"
  /\ loopPc' = [loopPc EXCEPT ![FreeLoop] = "launched"]
  /\ stopReq' = [stopReq EXCEPT ![FreeLoop] = FALSE]
  /\ stopSince' = [stopSince EXCEPT ![FreeLoop] = FALSE]
  /\ resp' = Respond("start", 200)
  /\ UNCHANGED <<stop, loopErr>>
  /\ UNCHANGED <<prog, exit, now, cbVars, qVars>>

\* startScan: 409 when !stop, else go scan()
startScan ==
  /\ Running
  /\ IF ~stop
       THEN /\ resp' = Respond("start", 409)
            /\ UNCHANGED <<stop, loopPc, loopErr, stopReq, stopSince>>
       ELSE /\ \E l \in Loops : loopPc[l] = "idle"
            /\ loopPc' = [loopPc EXCEPT ![FreeLoop] = "launched"]
            /\ stopReq' = [stopReq EXCEPT ![FreeLoop] = FALSE]
            /\ stopSince' = [stopSince EXCEPT ![FreeLoop] = FALSE]
            /\ resp' = Respond("start", 200)
            /\ UNCHANGED <<stop, loopErr>>
  /\ UNCHANGED <<prog, exit, now, cbVars, qVars>>

\* stopScan: 409 when stop, else stop = true
stopScan ==
  /\ Running
  /\ IF stop
       THEN /\ resp' = Respond("stop", 409)
            /\ UNCHANGED <<stop, loopPc, loopErr, stopReq, stopSince>>
       ELSE /\ stop' = TRUE
            /\ stopReq' = [l \in Loops |-> stopReq[l] \/ loopPc[l] \in {"cond", "scan"}]
            /\ stopSince' = [l \in Loops |-> stopSince[l] \/ loopPc[l] # "idle"]
            /\ resp' = Respond("stop", 200)
            /\ UNCHANGED <<loopPc, loopErr>>
  /\ UNCHANGED <<prog, exit, now, cbVars, qVars>>

\* scan, first statement: stop = false
scanBegin(l) ==
  /\ Running
  /\ loopPc[l] = "launched"
  /\ stop' = FALSE
  /\ loopPc' = [loopPc EXCEPT ![l] = "cond"]
  /\ UNCHANGED <<prog, exit, now, resp, loopErr, stopReq, stopSince, cbVars, qVars>>

\* a loop that runs one session only
scanCondOnce(l) ==
  /\ Running
  /\ loopPc[l] = "cond"
  /\ loopPc' = [loopPc EXCEPT ![l] = IF stop \/ loopErr[l] # "none" THEN "exit" ELSE "scan"]
  /\ loopErr' = [loopErr EXCEPT ![l] = "none"]
  /\ UNCHANGED <<prog, exit, now, stop, resp, stopReq, stopSince, cbVars, qVars>>

\* scan, the loop condition: for !stop { ... ble.Scan(ctx, ...) }
scanCond(l) ==
  /\ Running
  /\ loopPc[l] = "cond"
  /\ loopPc' = [loopPc EXCEPT ![l] = IF stop THEN "exit" ELSE "scan"]
  /\ loopErr' = [loopErr EXCEPT ![l] = "none"]
  /\ UNCHANGED <<prog, exit, now, stop, resp, stopReq, stopSince, cbVars, qVars>>

\* check returns for a nil, DeadlineExceeded or Canceled error; for any
\* other error it calls logger.Fatal
check(err) == err \in {"none", "timeout", "canceled"}

\* a scan goroutine that returns at once when ble.Scan fails
scanReturnQuit(l, err) ==
  /\ Running
  /\ loopPc[l] = "scan"
  /\ loopErr' = [loopErr EXCEPT ![l] = err]
  /\ loopPc' = [loopPc EXCEPT ![l] = IF err = "error" THEN "idle" ELSE "cond"]
  /\ UNCHANGED <<prog, exit, now, stop, resp, stopReq, stopSince, cbVars, qVars>>

\* ble.Scan returns err: the context's deadline, its cancellation (a signal
\* caught by WithSigHandler), or a radio error.  The devices program drops
\* the value; the beacons program passes it to check.
scanReturn(l, err) ==
  /\ Running
  /\ loopPc[l] = "scan"
  /\ IF prog = "beacons" /\ ~check(err)
       THEN Ended("fatal")
       ELSE /\ loopErr' = [loopErr EXCEPT ![l] = err]
            /\ loopPc' = [loopPc EXCEPT ![l] = "cond"]
            /\ UNCHANGED <<prog, exit, now, stop, resp, stopReq, stopSince, cbVars, qVars>>

\* scan, last statement: stop = true, and the goroutine ends
scanEnd(l) ==
  /\ Running
  /\ loopPc[l] = "exit"
  /\ stop' = TRUE
  /\ loopPc' = [loopPc EXCEPT ![l] = "idle"]
  /\ UNCHANGED <<prog, exit, now, resp, loopErr, stopReq, stopSince, cbVars, qVars>>

\* the clock
Tick ==
  /\ Running
  /\ now + 45 \in Times
  /\ now' = now + 45
  /\ UNCHANGED <<prog, exit, ctlVars, cbVars, qVars>>

(* ------------------------ advertisement callbacks --------------------- *)
\* Manufacturer data is a slice of the received packet: its length, and its
\* capacity (the bytes of the packet that follow it included).
NoMd == [len |-> 0, cap |-> 0]
ShortMd == [len |-> 10, cap |-> 10]
\* ten bytes of manufacturer data followed by other fields of the packet
ShortMdLongPacket == [len |-> 10, cap |-> 31]
FullMd == [len |-> 27, cap |-> 31]
\* Service data elements, each by the first two bytes of its UUID.
Sig == <<SigByte0, SigByte1>>
Swapped == <<SigByte1, SigByte0>>

\* The advertisements the radio delivers: to the devices program any
\* address and RSSI; to the beacons program a beacon of either address, a
\* beacon with two service data elements, packets without the signature,
\* and beacons whose manufacturer data is short or absent.
Adverts ==
  IF prog = "devices"
    THEN [addr : Addrs, rssi : RSSIs, svc : {<<>>}, md : {NoMd}]
    ELSE [addr : Addrs, rssi : {-70}, svc : {<<Sig>>}, md : {FullMd}]
         \cup [addr : {"X"}, rssi : {-70}, svc : {<<Sig, Sig>>}, md : {FullMd}]
         \cup [addr : {"X"}, rssi : {-70}, svc : {<<>>, <<Swapped>>}, md : {FullMd}]
         \cup [addr : {"X"}, rssi : {-70}, svc : {<<Sig>>}, md : {NoMd, ShortMd, ShortMdLongPacket}]

\* Go's checks of md[lo:hi] and md[i]
SliceOk(md, lo, hi) == 0 <= lo /\ lo <= hi /\ hi <= md.cap
IndexOk(md, i) == 0 <= i /\ i < md.len

getUUID(md) == SliceOk(md, 4, 20)
getMajor(md) == SliceOk(md, 21, 23)
getMinor(md) == SliceOk(md, 24, 26)
getBatteryLevel(md) == IndexOk(md, md.len - 1)
\* the Beacon literal of advHandler evaluates all four getters
DecodeOk(md) == getUUID(md) /\ getMajor(md) /\ getMinor(md) /\ getBatteryLevel(md)

\* s.UUID[0] == 0x03 && s.UUID[1] == 0x18
IsBeaconService(uuid) == uuid[1] = SigByte0 /\ uuid[2] = SigByte1

Keys(m) == {d.Address : d \in m}
\* an assignment that keeps the entry the key had
MapInsert(m, k, v) == m \cup {v}

\* devices[k] = v
MapAssign(m, k, v) == {d \in m : d.Address # k} \cup {v}

FreeCallback == nAdv + 1

\* advHandler from element i of svcdata up to its next access to beacons:
\* elements without the signature are passed over; at one with the
\* signature the Beacon literal is evaluated (an out-of-range getter
\* panics, which ends the process) and append reads the slice.
RECURSIVE NextBeaconService(_, _)
NextBeaconService(svc, i) ==
  IF i > Len(svc) \/ IsBeaconService(svc[i]) THEN i ELSE NextBeaconService(svc, i + 1)

\* an element with the signature follows element j: the handler still
\* needs the advertisement after the append
MoreBeaconServices(svc, j) == NextBeaconService(svc, j + 1) <= Len(svc)

advHandler(c, a, i) ==
  LET j == NextBeaconService(a.svc, i)
  IN IF j > Len(a.svc)
       THEN [pc |-> "idle", adv |-> 0, idx |-> 0, local |-> 0]
       ELSE IF ~DecodeOk(a.md)
         THEN [pc |-> "panic", adv |-> 0, idx |-> 0, local |-> 0]
         ELSE [pc |-> "append",
               adv |-> IF MoreBeaconServices(a.svc, j) THEN a ELSE 0,
               idx |-> IF MoreBeaconServices(a.svc, j) THEN j ELSE 0,
               local |-> [old |-> beacons,
                          beacon |-> [MAC |-> a.addr, Detected |-> now, RSSI |-> a.rssi]]]

\* the radio layer hands one advertisement of a running session to a new
\* goroutine running the handler: adScanHandler up to mutex.Lock(),
\* advHandler up to its first access to beacons
advReceived(l, a) ==
  /\ Running
  /\ loopPc[l] = "scan"
  /\ nAdv < MaxAdverts
  /\ LET c == FreeCallback
         r == advHandler(c, a, 1)
     IN IF prog = "devices"
          THEN /\ nAdv' = nAdv + 1
               /\ cbPc' = [cbPc EXCEPT ![c] = "lock"]
               /\ cbAdv' = [cbAdv EXCEPT ![c] = a]
               /\ UNCHANGED <<prog, exit, now, ctlVars, mutex, devices, beacons, cbIdx, cbLocal, upserted, qVars>>
          ELSE IF r.pc = "panic"
            THEN Ended("panic")
            ELSE /\ nAdv' = nAdv + 1
                 /\ cbPc' = [cbPc EXCEPT ![c] = r.pc]
                 /\ cbAdv' = [cbAdv EXCEPT ![c] = r.adv]
                 /\ cbIdx' = [cbIdx EXCEPT ![c] = r.idx]
                 /\ cbLocal' = [cbLocal EXCEPT ![c] = r.local]
                 /\ UNCHANGED <<prog, exit, now, ctlVars, mutex, devices, beacons, upserted, qVars>>

\* adScanHandler: mutex.Lock()
adScanLock(c) ==
  /\ Running
  /\ cbPc[c] = "lock"
  /\ mutex = 0
  /\ mutex' = c
  /\ cbPc' = [cbPc EXCEPT ![c] = "store"]
  /\ UNCHANGED <<prog, exit, now, ctlVars, devices, beacons, cbAdv, cbIdx, cbLocal, upserted, nAdv, qVars>>

\* adScanHandler: device := Device{...}; devices[addr] = device; mutex.Unlock()
adScanStore(c) ==
  /\ Running
  /\ cbPc[c] = "store"
  /\ LET device == [Address |-> cbAdv[c].addr, Detected |-> now, RSSI |-> cbAdv[c].rssi]
     IN /\ devices' = MapAssign(devices, cbAdv[c].addr, device)
        /\ upserted' = [upserted EXCEPT ![cbAdv[c].addr] = device]
  /\ mutex' = 0
  /\ cbPc' = [cbPc EXCEPT ![c] = "idle"]
  /\ cbAdv' = [cbAdv EXCEPT ![c] = 0]
  /\ UNCHANGED <<prog, exit, now, ctlVars, beacons, cbIdx, cbLocal, nAdv, qVars>>

\* advHandler: beacons = append(beacons, beacon), the write, and on to the
\* next element of svcdata that carries the signature
advAppend(c) ==
  /\ Running
  /\ cbPc[c] = "append"
  /\ beacons' = Append(cbLocal[c].old, cbLocal[c].beacon)
  /\ upserted' = [upserted EXCEPT ![cbLocal[c].beacon.MAC] =
                     [Address |-> cbLocal[c].beacon.MAC, Detected |-> cbLocal[c].beacon.Detected,
                      RSSI |-> cbLocal[c].beacon.RSSI]]
  /\ cbLocal' = [cbLocal EXCEPT ![c] = 0]
  /\ IF cbIdx[c] = 0
       THEN /\ cbPc' = [cbPc EXCEPT ![c] = "idle"]
            /\ UNCHANGED <<cbAdv, cbIdx>>
       ELSE /\ cbPc' = [cbPc EXCEPT ![c] = "elem"]
            /\ cbIdx' = [cbIdx EXCEPT ![c] = NextBeaconService(cbAdv[c].svc, cbIdx[c] + 1)]
            /\ cbAdv' = cbAdv
  /\ UNCHANGED <<prog, exit, now, ctlVars, mutex, devices, nAdv, qVars>>

\* advHandler at a further element with the signature: the Beacon literal
\* and append's read of beacons
advElem(c) ==
  /\ Running
  /\ cbPc[c] = "elem"
  /\ LET r == advHandler(c, cbAdv[c], cbIdx[c])
     IN IF r.pc = "panic"
          THEN Ended("panic")
          ELSE /\ cbPc' = [cbPc EXCEPT ![c] = r.pc]
               /\ cbAdv' = [cbAdv EXCEPT ![c] = r.adv]
               /\ cbIdx' = [cbIdx EXCEPT ![c] = r.idx]
               /\ cbLocal' = [cbLocal EXCEPT ![c] = r.local]
               /\ UNCHANGED <<prog, exit, now, ctlVars, mutex, devices, beacons, upserted, nAdv, qVars>>

(* ---------------------------- beacon decoding ------------------------- *)
\* The Beacon literal of advHandler, one getter at a time, on manufacturer
\* data given byte by byte: md.bytes is the packet from the first byte of
\* the manufacturer data on, md.len of them are the manufacturer data.
\* Positions of the callback: "uuid", "major", "minor", "battery" (the
\* getter to evaluate next), "decoded" (the literal is complete), "panic".
Bytes(n, mul, add) == [i \in 1..n |-> (mul * (i - 1) + add) % 256]

MdInputs ==
  UNION {{[len |-> n, cap |-> k, bytes |-> Bytes(k, mul, add)] :
             k \in {n, MaxPacket}, mul \in {0, 29}, add \in {0, 9, 171}} :
           n \in 0..MaxMdLen}

\* encoding/hex: const hextable = "0123456789abcdef"
HexTable == <<"0", "1", "2", "3", "4", "5", "6", "7", "8", "9", "a", "b", "c", "d", "e", "f">>

EncodeByte(b) == <<HexTable[(b \div 16) + 1], HexTable[(b % 16) + 1]>>

RECURSIVE EncodeToString(_)
\* hex.EncodeToString: two characters per byte
EncodeToString(src) ==
  IF src = <<>> THEN <<>> ELSE EncodeByte(Head(src)) \o EncodeToString(Tail(src))

\* the verb %02x
SprintfPadded(b) == EncodeByte(b)

\* fmt.Sprintf("%x", b) of one byte: no leading zero
Sprintf(b) == IF b < 16 THEN <<HexTable[b + 1]>> ELSE EncodeByte(b)

\* the bytes md[lo:hi]
Slice(md, lo, hi) == SubSeq(md.bytes, lo + 1, hi)

\* no field of the Beacon literal evaluated yet
NoFields == [UUID |-> <<>>, Major |-> <<>>, Minor |-> <<>>, Battery |-> <<>>, past |-> FALSE]

\* a getter panics: the goroutine, and with it the process, ends
decodePanic(c) ==
  /\ cbPc' = [cbPc EXCEPT ![c] = "panic"]
  /\ exit' = "panic"
  /\ UNCHANGED <<prog, now, ctlVars, mutex, devices, beacons, cbAdv, cbIdx, cbLocal, upserted, nAdv, qVars>>

\* a getter returns: field f of the literal is str; hi is the end of the
\* slice it read
decodeField(c, f, str, hi, next) ==
  /\ cbLocal' = [cbLocal EXCEPT ![c] = [cbLocal[c] EXCEPT ![f] = str,
                                                          !.past = @ \/ hi > cbAdv[c].md.len]]
  /\ cbPc' = [cbPc EXCEPT ![c] = next]
  /\ UNCHANGED <<prog, exit, now, ctlVars, mutex, devices, beacons, cbAdv, cbIdx, upserted, nAdv, qVars>>

\* UUID: getUUID(a.ManufacturerData())
beaconUUID(c) ==
  /\ Running
  /\ cbPc[c] = "uuid"
  /\ LET md == cbAdv[c].md
     IN IF getUUID(md)
          THEN decodeField(c, "UUID", EncodeToString(Slice(md, 4, 20)), 20, "major")
          ELSE decodePanic(c)

\* Major: getMajor(a.ManufacturerData())
beaconMajor(c) ==
  /\ Running
  /\ cbPc[c] = "major"
  /\ LET md == cbAdv[c].md
     IN IF getMajor(md)
          THEN decodeField(c, "Major", EncodeToString(Slice(md, 21, 23)), 23, "minor")
          ELSE decodePanic(c)

\* Minor: getMinor(a.ManufacturerData())
beaconMinor(c) ==
  /\ Running
  /\ cbPc[c] = "minor"
  /\ LET md == cbAdv[c].md
     IN IF getMinor(md)
          THEN decodeField(c, "Minor", EncodeToString(Slice(md, 24, 26)), 26, "battery")
          ELSE decodePanic(c)

\* Battery: getBatteryLevel(a.ManufacturerData())
beaconBattery(c) ==
  /\ Running
  /\ cbPc[c] = "battery"
  /\ LET md == cbAdv[c].md
     IN IF getBatteryLevel(md)
          THEN decodeField(c, "Battery", Sprintf(md.bytes[md.len]), md.len, "decoded")
          ELSE decodePanic(c)

(* ------------------------------ queries ------------------------------- *)
\* The "last" parameter as the characters of the URL; <<>> when absent.
LastParams == {<<>>, <<"1", "2", "0">>, <<"x">>}
Digits == <<"0", "1", "2", "3", "4", "5", "6", "7", "8", "9">>
IsDigit(ch) == \E d \in 1..10 : Digits[d] = ch
DigitVal(ch) == (CHOOSE d \in 1..10 : Digits[d] = ch) - 1

RECURSIVE DecimalVal(_)
DecimalVal(str) ==
  IF str = <<>> THEN 0
  ELSE 10 * DecimalVal(SubSeq(str, 1, Len(str) - 1)) + DigitVal(str[Len(str)])

\* strconv.Atoi: an optional sign and decimal digits, else 0 and an error
Atoi(str) ==
  LET signed == str # <<>> /\ str[1] \in {"+", "-"}
      body == IF signed THEN Tail(str) ELSE str
  IN IF body = <<>> \/ \E i \in 1..Len(body) : ~IsDigit(body[i])
       THEN [val |-> 0, err |-> TRUE]
       ELSE [val |-> IF signed /\ str[1] = "-" THEN 0 - DecimalVal(body) ELSE DecimalVal(body),
             err |-> FALSE]

\* the comparison with the window of showDevices whatever sec is
LiveFixedWindow(detected, sec) == now - DefaultWindow < detected

\* tn := time.Now().Add(-sec seconds); tn.Before(detected)
Live(detected, sec) == now - sec < detected

RECURSIVE InsertBeforeEqual(_, _)
\* put d behind every entry whose RSSI is greater
InsertBeforeEqual(sorted, d) ==
  IF sorted = <<>> THEN <<d>>
  ELSE IF Head(sorted).RSSI > d.RSSI
         THEN <<Head(sorted)>> \o InsertBeforeEqual(Tail(sorted), d)
         ELSE <<d>> \o sorted

RECURSIVE InsertByRSSI(_, _)
\* put d behind every entry whose RSSI is not smaller
InsertByRSSI(sorted, d) ==
  IF sorted = <<>> THEN <<d>>
  ELSE IF Head(sorted).RSSI >= d.RSSI
         THEN <<Head(sorted)>> \o InsertByRSSI(Tail(sorted), d)
         ELSE <<d>> \o sorted

RECURSIVE SliceStable(_)
\* sort.SliceStable(data, data[i].RSSI > data[j].RSSI)
SliceStable(data) ==
  IF data = <<>> THEN <<>>
  ELSE InsertByRSSI(SliceStable(SubSeq(data, 1, Len(data) - 1)), data[Len(data)])

QueryFree == qPc \in {"idle", "done"}

\* showDevices, up to the range statement: no lock is taken and the "last"
\* parameter of the request is not read
showDevicesBegin(last) ==
  /\ Running
  /\ prog = "devices"
  /\ QueryFree
  /\ qPc' = "iter"
  /\ qLast' = last
  /\ qWin' = DefaultWindow
  /\ qErr' = FALSE
  /\ qStart' = now
  /\ qTodo' = Keys(devices)
  /\ qSeen' = {}
  /\ qData' = <<>>
  /\ UNCHANGED <<prog, exit, now, ctlVars, cbVars, qSnap, qIdx>>

\* showDevices: one turn of  for _, device := range devices.  The iteration
\* produces every key of the map once, in any order; a key stored after
\* the range began is produced or skipped.
showDevicesStep(d) ==
  /\ Running
  /\ prog = "devices"
  /\ qPc = "iter"
  /\ d \in devices
  /\ d.Address \notin {e.Address : e \in qSeen}
  /\ qSeen' = qSeen \cup {d}
  /\ qTodo' = qTodo \ {d.Address}
  /\ qData' = IF Live(d.Detected, qWin) THEN Append(qData, d) ELSE qData
  /\ UNCHANGED <<prog, exit, now, ctlVars, cbVars, qPc, qLast, qWin, qErr, qStart, qSnap, qIdx>>

\* showDevices: the range ends, sort.SliceStable, t.Execute(w, data); the
\* handler returns and its locals are gone
showDevicesEnd ==
  /\ Running
  /\ prog = "devices"
  /\ qPc = "iter"
  /\ qTodo = {}
  /\ qData' = SliceStable(qData)
  /\ qPc' = "done"
  /\ qWin' = 0
  /\ qStart' = 0
  /\ qSeen' = {}
  /\ UNCHANGED <<prog, exit, now, ctlVars, cbVars, qLast, qErr, qTodo, qSnap, qIdx>>

\* The range of showDevices runs while a callback is inside its map
\* assignment: the runtime may detect it ("concurrent map iteration and
\* map write") and end the process.
showDevicesRace ==
  /\ Running
  /\ prog = "devices"
  /\ qPc = "iter"
  /\ \E c \in Callbacks : cbPc[c] = "store"
  /\ Ended("maprace")

\* beaconsJSON, up to the call filterByDate(beacons, last): after a failed
\* Atoi the error page is written and the handler goes on with last = 0
beaconsJSONBegin(last) ==
  /\ Running
  /\ prog = "beacons"
  /\ QueryFree
  /\ LET lastParam == IF last = <<>> THEN <<"6", "0">> ELSE last
         r == Atoi(lastParam)
     IN /\ qWin' = r.val
        /\ qErr' = r.err
  /\ qPc' = "iter"
  /\ qLast' = last
  /\ qStart' = now
  /\ qSnap' = beacons
  /\ qIdx' = 1
  /\ qData' = <<>>
  /\ UNCHANGED <<prog, exit, now, ctlVars, cbVars, qTodo, qSeen>>

\* filterByDate: one turn of  for _, beacon := range beacons
filterByDateStep ==
  /\ Running
  /\ prog = "beacons"
  /\ qPc = "iter"
  /\ qIdx <= Len(qSnap)
  /\ qData' = IF Live(qSnap[qIdx].Detected, qWin) THEN Append(qData, qSnap[qIdx]) ELSE qData
  /\ qIdx' = qIdx + 1
  /\ UNCHANGED <<prog, exit, now, ctlVars, cbVars, qPc, qLast, qWin, qErr, qStart, qTodo, qSeen, qSnap>>

\* beaconsJSON: filterByDate returns, json.MarshalIndent, w.Write; the
\* handler returns and its locals are gone
beaconsJSONEnd ==
  /\ Running
  /\ prog = "beacons"
  /\ qPc = "iter"
  /\ qIdx > Len(qSnap)
  /\ qPc' = "done"
  /\ qWin' = 0
  /\ qStart' = 0
  /\ qSnap' = <<>>
  /\ qIdx' = 0
  /\ UNCHANGED <<prog, exit, now, ctlVars, cbVars, qLast, qErr, qTodo, qSeen, qData>>

\* beaconsJSON reads the three words of the slice header while a callback
\* is writing them: the header read may pair the old array with the new
\* length, and the handler then reads past the array.
beaconsJSONRace ==
  /\ Running
  /\ prog = "beacons"
  /\ QueryFree
  /\ \E c \in Callbacks : cbPc[c] = "append"
  /\ Ended("fault")

Next ==
  \/ startScan
  \/ stopScan
  \/ \E l \in Loops : scanBegin(l)
  \/ \E l \in Loops : scanCond(l)
  \/ \E l \in Loops, err \in ScanErrs : scanReturn(l, err)
  \/ \E l \in Loops : scanEnd(l)
  \/ Tick
  \/ \E l \in Loops, a \in Adverts : advReceived(l, a)
  \/ \E c \in Callbacks : adScanLock(c)
  \/ \E c \in Callbacks : adScanStore(c)
  \/ \E c \in Callbacks : advElem(c)
  \/ \E c \in Callbacks : advAppend(c)
  \/ \E last \in LastParams : showDevicesBegin(last)
  \/ \E d \in devices : showDevicesStep(d)
  \/ showDevicesEnd
  \/ showDevicesRace
  \/ \E last \in LastParams : beaconsJSONBegin(last)
  \/ filterByDateStep
  \/ beaconsJSONEnd
  \/ beaconsJSONRace

\* the whole process
Spec == Init /\ [][Next]_vars

\* The scan controller alone: the radio delivers nothing, nobody queries.
NextCtl ==
  \/ startScan
  \/ stopScan
  \/ \E l \in Loops : scanBegin(l)
  \/ \E l \in Loops : scanCond(l)
  \/ \E l \in Loops, err \in ScanErrs : scanReturn(l, err)
  \/ \E l \in Loops : scanEnd(l)

SpecCtl == Init /\ [][NextCtl]_vars

\* The registry during the first scan session: one /start, then the
\* callbacks, the queries and the clock.
startFirst == resp.h = "none" /\ startScan

NextReg ==
  \/ startFirst
  \/ \E l \in Loops : scanBegin(l)
  \/ \E l \in Loops : scanCond(l)
  \/ Tick
  \/ \E l \in Loops, a \in Adverts : advReceived(l, a)
  \/ \E c \in Callbacks : adScanLock(c)
  \/ \E c \in Callbacks : adScanStore(c)
  \/ \E c \in Callbacks : advElem(c)
  \/ \E c \in Callbacks : advAppend(c)
  \/ \E last \in LastParams : showDevicesBegin(last)
  \/ \E d \in devices : showDevicesStep(d)
  \/ showDevicesEnd
  \/ showDevicesRace
  \/ \E last \in LastParams : beaconsJSONBegin(last)
  \/ filterByDateStep
  \/ beaconsJSONEnd
  \/ beaconsJSONRace

SpecReg == Init /\ [][NextReg]_vars

\* The decoder alone: one callback evaluates the Beacon literal for an
\* advertisement with the signature and any manufacturer data.
InitDec ==
  /\ prog = "beacons"
  /\ exit = "running"
  /\ stop = FALSE
  /\ resp = [h |-> "start", code |-> 200, seq |-> 1]
  /\ loopPc = [l \in Loops |-> IF l = 1 THEN "scan" ELSE "idle"]
  /\ loopErr = [l \in Loops |-> "none"]
  /\ stopReq = [l \in Loops |-> FALSE]
  /\ stopSince = [l \in Loops |-> FALSE]
  /\ now = 0
  /\ nAdv = 1
  /\ mutex = 0
  /\ devices = {}
  /\ beacons = <<>>
  /\ cbPc = [c \in Callbacks |-> IF c = 1 THEN "uuid" ELSE "idle"]
  /\ \E md \in MdInputs :
       cbAdv = [c \in Callbacks |->
                  IF c = 1 THEN [addr |-> "X", rssi |-> -70, svc |-> <<Sig>>, md |-> md] ELSE 0]
  /\ cbIdx = [c \in Callbacks |-> 0]
  /\ cbLocal = [c \in Callbacks |-> IF c = 1 THEN NoFields ELSE 0]
  /\ upserted = [a \in Addrs |-> NoRecord]
  /\ qPc = "idle"
  /\ qLast = <<>>
  /\ qWin = 0
  /\ qErr = FALSE
  /\ qStart = 0
  /\ qTodo = {}
  /\ qSeen = {}
  /\ qSnap = <<>>
  /\ qIdx = 0
  /\ qData = <<>>

NextDec ==
  \/ \E c \in Callbacks : beaconUUID(c)
  \/ \E c \in Callbacks : beaconMajor(c)
  \/ \E c \in Callbacks : beaconMinor(c)
  \/ \E c \in Callbacks : beaconBattery(c)

SpecDec == InitDec /\ [][NextDec]_vars
(* ------------------------------- properties ------------------------------- *)
Quiescent == \A c \in Callbacks : cbPc[c] = "idle"
Elements(seq) == {seq[i] : i \in 1..Len(seq)}

\* C1: at most one scan loop exists at any time: the scan goroutines that
\* have been launched and have not yet exited are never more than one.
C1_AtMostOneScanLoop == Cardinality(LiveLoops) <= 1

\* C2: when a start() made on a Stopped controller has returned, the state
\* is already Scanning: as long as the accepted /start is the last request
\* answered, stop is false.
C2_StartReturnsScanning == (resp.h = "start" /\ resp.code = 200) => ~stop

\* C3: once a stop() was accepted while a scan loop was running, that loop
\* starts no further scan session.
C3_StoppedLoopStartsNoSession ==
  [][\A l \in Loops : stopReq[l] => ~(loopPc[l] = "cond" /\ loopPc'[l] = "scan")]_vars

\* C4: after an accepted stop() the scan session in progress ends by
\* cancellation, not by its timeout.
C4_StopCancelsSession ==
  [][\A l \in Loops : (stopReq[l] /\ loopPc[l] = "scan" /\ loopPc'[l] = "cond")
                        => loopErr'[l] = "canceled"]_vars

\* C5: a /start answered while stop is false, and a /stop answered while
\* stop is true, return 409, leave stop as it is and launch or end no loop.
C5_MisuseHasNoEffect ==
  [][(Running' /\ resp'.seq # resp.seq) =>
       /\ (resp'.h = "start" /\ ~stop) =>
            (resp'.code = 409 /\ stop' = stop /\ loopPc' = loopPc)
       /\ (resp'.h = "stop" /\ stop) =>
            (resp'.code = 409 /\ stop' = stop /\ loopPc' = loopPc)]_vars

\* a /start was refused while a scan loop was running
C5_Witness == resp.h = "start" /\ resp.code = 409 /\ ~stop /\ \E l \in Loops : loopPc[l] = "scan"

C7_NoReadDuringWrite == ~(qPc = "iter" /\ \E c \in Callbacks : cbPc[c] \in {"store", "append"})

\* C8: no upsert is lost: once the callbacks have finished, the registry
\* holds, for every address that was upserted, the record last written.
C8_NoUpsertLost ==
  Quiescent =>
    \A a \in Addrs :
      upserted[a] # NoRecord =>
        IF prog = "devices"
          THEN upserted[a] \in devices
          ELSE \E i \in 1..Len(beacons) :
                 beacons[i].MAC = a /\ beacons[i].Detected = upserted[a].Detected

\* the window a caller asks for: 60 when "last" is absent
Numeric(last) == last = <<>> \/ ~Atoi(last).err
AskedWindow(last) == IF last = <<>> THEN 60 ELSE Atoi(last).val
\* the entries a query has examined when it ends
Examined == IF prog = "devices" THEN qSeen ELSE Elements(qSnap)
QueryEnds == qPc = "iter" /\ qPc' = "done"

UsedWindow(last) == IF prog = "devices" THEN 60 ELSE AskedWindow(last)
C10_MalformedNeverAborts == exit # "panic"

\* the callbacks that are evaluating, or have evaluated, the Beacon literal
Decoding == {c \in Callbacks : cbPc[c] \in {"uuid", "major", "minor", "battery", "decoded", "panic"}}

\* C11: for manufacturer data shorter than 27 bytes (none at all included)
\* decoding reports a malformed payload: it does not panic, it reads no
\* byte past the end of the data and it does not produce the beacon fields.
C11_ShortPayloadRejected ==
  \A c \in Decoding :
    cbAdv[c].md.len < 27 =>
      /\ cbPc[c] # "panic"
      /\ ~cbLocal[c].past
      /\ cbPc[c] # "decoded"

\* the value of a lowercase hexadecimal digit, 16 for any other character
HexVal(ch) ==
  CASE ch = "0" -> 0 [] ch = "1" -> 1 [] ch = "2" -> 2 [] ch = "3" -> 3
    [] ch = "4" -> 4 [] ch = "5" -> 5 [] ch = "6" -> 6 [] ch = "7" -> 7
    [] ch = "8" -> 8 [] ch = "9" -> 9 [] ch = "a" -> 10 [] ch = "b" -> 11
    [] ch = "c" -> 12 [] ch = "d" -> 13 [] ch = "e" -> 14 [] ch = "f" -> 15
    [] OTHER -> 16
\* str is the lowercase hex, two characters a byte, of bytes lo..hi-1
\* (0-indexed) of md
IsHexOf(str, md, lo, hi) ==
  /\ Len(str) = 2 * (hi - lo)
  /\ \A k \in 0..(hi - lo - 1) :
       /\ HexVal(str[2 * k + 1]) < 16
       /\ HexVal(str[2 * k + 2]) < 16
       /\ 16 * HexVal(str[2 * k + 1]) + HexVal(str[2 * k + 2]) = md.bytes[lo + k + 1]
\* str is the hex of byte b without a leading zero
IsShortHexOf(str, b) ==
  IF b < 16 THEN Len(str) = 1 /\ HexVal(str[1]) = b
  ELSE Len(str) = 2 /\ HexVal(str[1]) < 16 /\ HexVal(str[2]) < 16
         /\ 16 * HexVal(str[1]) + HexVal(str[2]) = b

\* C17: for manufacturer data of 27 bytes or more decoding does not panic
\* and returns UUID = hex of bytes 4..19 (32 characters), major = hex of
\* bytes 21..22, minor = hex of bytes 24..25 and battery = the hex of the
\* last byte without padding.
C17_FieldLayout ==
  \A c \in Decoding :
    cbAdv[c].md.len >= 27 =>
      /\ cbPc[c] # "panic"
      /\ cbPc[c] = "decoded" =>
           /\ IsHexOf(cbLocal[c].UUID, cbAdv[c].md, 4, 20) /\ Len(cbLocal[c].UUID) = 32
           /\ IsHexOf(cbLocal[c].Major, cbAdv[c].md, 21, 23) /\ Len(cbLocal[c].Major) = 4
           /\ IsHexOf(cbLocal[c].Minor, cbAdv[c].md, 24, 26) /\ Len(cbLocal[c].Minor) = 4
           /\ IsShortHexOf(cbLocal[c].Battery, cbAdv[c].md.bytes[cbAdv[c].md.len])

\* 28 bytes with differing values were decoded; the last byte is below 16
C17_Witness ==
  \E c \in Decoding :
    /\ cbPc[c] = "decoded"
    /\ cbAdv[c].md.len = 28
    /\ cbAdv[c].md.bytes[5] # cbAdv[c].md.bytes[6]
    /\ Len(cbLocal[c].Battery) = 1

\* C12: a session that ends by its timeout leaves the process running, the
\* flag as it was and the loop at its condition; and a loop at its condition
\* after a timeout, with the flag still Scanning, starts a new session when
\* it moves (unless a radio error of another session ends the process).
C12_TimeoutResumes ==
  [][\A l \in Loops :
       /\ (loopPc[l] = "scan" /\ loopErr'[l] = "timeout") =>
            (Running' /\ stop' = stop /\ loopPc'[l] = "cond")
       /\ (Running' /\ loopPc[l] = "cond" /\ loopErr[l] = "timeout" /\ ~stop
             /\ loopPc'[l] # "cond") =>
            loopPc'[l] = "scan"]_vars

\* a session has timed out and the flag still says Scanning
C12_Witness == Running /\ ~stop /\ \E l \in Loops : loopPc[l] = "cond" /\ loopErr[l] = "timeout"

\* C13: a loop whose session returned Canceled starts no further session.
C13_CanceledLoopExits ==
  [][\A l \in Loops : (loopPc[l] = "cond" /\ loopErr[l] = "canceled") => loopPc'[l] # "scan"]_vars

\* C14: a radio error other than timeout and cancellation ends the process:
\* no scan goroutine goes on after ble.Scan returned such an error.
C14_RadioErrorEndsProcess == \A l \in Loops : loopErr[l] # "error"

\* C19: a scan loop leaves its loop only after a /stop accepted since the
\* /start that launched it.
C19_LoopStopsOnlyOnStop ==
  [][\A l \in Loops : (loopPc[l] = "cond" /\ loopPc'[l] = "exit") => stopSince[l]]_vars

\* C20: when the flag says Scanning, some scan goroutine has executed
\* stop = false and not yet its final stop = true.
C20_ScanningHasLoop == ~stop => \E l \in Loops : loopPc[l] \in {"cond", "scan", "exit"}

\* the flag says Scanning while a loop that has left its loop is about to
\* write Stopped
C20_Witness == ~stop /\ \E l \in Loops : loopPc[l] = "exit"

\* C15: dispatching one advertisement adds at most one entry to the beacon
\* registry, whatever the number of its service data elements.
C15_OneEntryPerAdvert == (prog = "beacons" /\ nAdv = 1) => Len(beacons) <= 1

\* C16: a query whose "last" parameter is not a number returns no listing.
C16_NonNumericOnlyError == qPc = "done" => Numeric(qLast)

\* the place of entry e in seq
Pos(seq, e) == CHOOSE k \in 1..Len(seq) : seq[k] = e

\* C18: the listing showDevices returns holds the entries its iteration
\* kept, by non-increasing RSSI, entries of equal RSSI in the order the
\* iteration produced them.
C18_StableByRSSI ==
  [][(QueryEnds /\ prog = "devices") =>
       /\ Len(qData') = Len(qData)
       /\ Elements(qData') = Elements(qData)
       /\ \A i, j \in 1..Len(qData') :
            i < j => /\ qData'[i].RSSI >= qData'[j].RSSI
                     /\ qData'[i].RSSI = qData'[j].RSSI =>
                          Pos(qData, qData'[i]) < Pos(qData, qData'[j])]_vars

\* a listing of two devices of equal RSSI was returned
C18_Witness ==
  /\ prog = "devices"
  /\ qPc = "done"
  /\ Len(qData) = 2
  /\ qData[1].RSSI = qData[2].RSSI
====
